---- MODULE Spec2Model ----
(***************************************************************************)
(* Model of x2node-pointers (lib/record-element-pointer.js): RFC 6901      *)
(* record element pointers parsed against a record type descriptor and     *)
(* applied to records (getValue, addValue, replaceValue, removeValue).     *)
(*                                                                         *)
(* Strings are sequences of one-character strings, so that splitting,      *)
(* escaping and unescaping are computed character by character.            *)
(***************************************************************************)
EXTENDS Integers, Sequences, FiniteSets, TLC

VARIABLES input, ptr, record, call, outcome

vars == <<input, ptr, record, call, outcome>>

(***************************************************************************)
(* Bounds of the model.                                                    *)
(***************************************************************************)
\* longest pointer string handed to parse() in SpecParse
MaxStrLen == 5
\* longest token handed to createChildPointer() in SpecPtr
MaxTokLen == 2
\* largest number of stored properties and elements in a record (Spec)
MaxSize == 4

\* the characters pointer strings and tokens are made of
Chars == {"~", "/", "0", "1", "-", ":", "t", "o", "p", "l", "m"}

Digits == {"0", "1", "2", "3", "4", "5", "6", "7", "8", "9"}

Str(n) == UNION {[1..k -> Chars] : k \in 0..n}

(***************************************************************************)
(* String helpers of the JavaScript runtime used by the source.            *)
(***************************************************************************)
\* String.prototype.startsWith
startsWith(s, prefix) ==
    /\ Len(prefix) <= Len(s)
    /\ SubSeq(s, 1, Len(prefix)) = prefix

\* String.prototype.indexOf for a single character; 0-based, -1 if absent
indexOf(s, c) ==
    IF \E k \in 1..Len(s) : s[k] = c
    THEN (CHOOSE k \in 1..Len(s) : s[k] = c /\ \A j \in 1..(k - 1) : s[j] # c) - 1
    ELSE -1

\* String.prototype.split('/')
RECURSIVE split(_)
split(s) ==
    LET k == indexOf(s, "/") IN
    IF k = -1 THEN <<s>>
    ELSE <<SubSeq(s, 1, k)>> \o split(SubSeq(s, k + 2, Len(s)))

\* pointerToken.replace(/[~\/]/g, m => (m === '~' ? '~0' : '~1'))
RECURSIVE escape(_)
escape(s) ==
    IF s = <<>> THEN <<>>
    ELSE (IF Head(s) = "~" THEN <<"~", "0">>
          ELSE IF Head(s) = "/" THEN <<"~", "1">>
          ELSE <<Head(s)>>) \o escape(Tail(s))

\* token.replace(/~[01]/g, m => (m === '~0' ? '~' : '/'))
RECURSIVE unescape(_)
unescape(s) ==
    IF s = <<>> THEN <<>>
    ELSE IF Len(s) >= 2 /\ s[1] = "~" /\ s[2] \in {"0", "1"}
         THEN <<IF s[2] = "0" THEN "~" ELSE "/">> \o unescape(SubSeq(s, 3, Len(s)))
         ELSE <<Head(s)>> \o unescape(Tail(s))

\* /^(?:0|[1-9][0-9]*)$/.test(pointerToken)
isArrayIndexToken(s) ==
    \/ s = <<"0">>
    \/ /\ Len(s) >= 1
       /\ s[1] \in Digits \ {"0"}
       /\ \A k \in 1..Len(s) : s[k] \in Digits

DigitValue(c) ==
    CASE c = "0" -> 0 [] c = "1" -> 1 [] c = "2" -> 2 [] c = "3" -> 3
      [] c = "4" -> 4 [] c = "5" -> 5 [] c = "6" -> 6 [] c = "7" -> 7
      [] c = "8" -> 8 [] c = "9" -> 9

\* Number(pointerToken) for a token that passed the array index test
RECURSIVE Number(_)
Number(s) ==
    IF s = <<>> THEN 0
    ELSE 10 * Number(SubSeq(s, 1, Len(s) - 1)) + DigitValue(s[Len(s)])

(***************************************************************************)
(* The record type the pointers are parsed against: the interface of the   *)
(* x2node-records descriptors as the source consumes it.  The record type  *)
(* is polymorphic, like the Event type of the README:                      *)
(*   t      the type property (typePropertyName), a scalar                 *)
(*   o      a subtype; its property p is a nested object {t, l} where l is *)
(*          an array of nested objects {t}                                 *)
(*   l      an array of scalars, shared by all subtypes                    *)
(*   m      a map of scalars, shared by all subtypes                       *)
(*   tt     a nested object {t}, shared by all subtypes                    *)
(***************************************************************************)
NoContainer == "null"

PropDesc(id, container, name, array, map, scalarValueType, nestedProperties) ==
    [id |-> id, container |-> container, name |-> name, array |-> array,
     map |-> map, scalarValueType |-> scalarValueType,
     nestedProperties |-> nestedProperties]

\* the propDesc of the root pointer (null)
NoPropDesc == PropDesc("null", NoContainer, <<>>, FALSE, FALSE, "null", NoContainer)

PropertyDescs ==
    { PropDesc("t",       "Event",     <<"t">>, FALSE, FALSE, "string", NoContainer),
      PropDesc("o",       "Event",     <<"o">>, FALSE, FALSE, "object", "Event.o"),
      PropDesc("o.p",     "Event.o",   <<"p">>, FALSE, FALSE, "object", "Event.o.p"),
      PropDesc("o.p.t",   "Event.o.p", <<"t">>, FALSE, FALSE, "string", NoContainer),
      PropDesc("o.p.l",   "Event.o.p", <<"l">>, TRUE,  FALSE, "object", "Event.o.p.l"),
      PropDesc("o.p.l.t", "Event.o.p.l", <<"t">>, FALSE, FALSE, "string", NoContainer),
      PropDesc("l",       "Event",     <<"l">>, TRUE,  FALSE, "string", NoContainer),
      PropDesc("m",       "Event",     <<"m">>, FALSE, TRUE,  "string", NoContainer),
      PropDesc("tt",      "Event",     <<"t", "t">>, FALSE, FALSE, "object", "Event.tt"),
      PropDesc("tt.t",    "Event.tt",  <<"t">>, FALSE, FALSE, "string", NoContainer) }

Containers ==
    { [id |-> "Event",       polymorph |-> TRUE,  typePropertyName |-> <<"t">>, nestedPath |-> <<>>],
      [id |-> "Event.o",     polymorph |-> FALSE, typePropertyName |-> <<>>, nestedPath |-> <<"o", ".">>],
      [id |-> "Event.o.p",   polymorph |-> FALSE, typePropertyName |-> <<>>, nestedPath |-> <<"o", ".", "p", ".">>],
      [id |-> "Event.o.p.l", polymorph |-> FALSE, typePropertyName |-> <<>>, nestedPath |-> <<"o", ".", "p", ".", "l", ".">>],
      [id |-> "Event.tt",    polymorph |-> FALSE, typePropertyName |-> <<>>, nestedPath |-> <<"t", "t", ".">>] }

\* the record type descriptor handed to parse()
recordTypeDesc == "Event"

\* the subtypes declared by the record type
Subtypes == {<<"o">>}

Container(c) == CHOOSE x \in Containers : x.id = c

isPolymorphObject(c) == Container(c).polymorph

typePropertyName(c) == Container(c).typePropertyName

nestedPath(c) == Container(c).nestedPath

hasProperty(c, name) == \E d \in PropertyDescs : d.container = c /\ d.name = name

getPropertyDesc(c, name) == CHOOSE d \in PropertyDescs : d.container = c /\ d.name = name

isArray(propDesc) == propDesc.array

isMap(propDesc) == propDesc.map

(***************************************************************************)
(* Pointers.  A pointer is modelled by its _pointerChain: the sequence of  *)
(* its nodes, the pointer itself first and the root pointer last.          *)
(***************************************************************************)
IndexUndefined == [t |-> "undefined", n |-> 0, s |-> <<>>]

IndexNumber(n) == [t |-> "number", n |-> n, s |-> <<>>]

IndexString(s) == [t |-> "string", n |-> 0, s |-> s]

Dash == IndexString(<<"-">>)

\* the fields of the pointer object itself
this(pointer) == pointer[1]

toString(pointer) == this(pointer).pointerString

isRoot(pointer) == this(pointer).root

\* new RecordElementPointer(...); parent is <<>> for null
RecordElementPointer(parent, pointerToken, propDesc, propPath, collectionElement, collectionElementIndex, childrenContainer) ==
    << [root |-> (parent = <<>>),
        propDesc |-> propDesc,
        propPath |-> propPath,
        collectionElement |-> collectionElement,
        collectionElementIndex |-> collectionElementIndex,
        childrenContainer |-> childrenContainer,
        pointerString |-> IF parent # <<>>
                          THEN toString(parent) \o <<"/">> \o escape(pointerToken)
                          ELSE <<>>] >> \o parent

RootPointer ==
    RecordElementPointer(<<>>, <<>>, NoPropDesc, <<>>, FALSE, IndexUndefined, recordTypeDesc)

\* results of parse() and createChildPointer(): a pointer or a thrown error
Returned(pointer) == [error |-> "none", pointer |-> pointer]

Thrown(kind) == [error |-> kind, pointer |-> <<>>]

_createChildPointer(pointer, pointerToken, noDash) ==
    LET self == this(pointer)
        root == isRoot(pointer)
        cc == self.childrenContainer
        colonInd == indexOf(pointerToken, ":")
        subtypeName == SubSeq(pointerToken, 1, colonInd)
        propName == SubSeq(pointerToken, colonInd + 2, Len(pointerToken))
        regular ==
            IF ~hasProperty(cc, pointerToken) THEN Thrown("SyntaxError")
            ELSE LET childPropDesc == getPropertyDesc(cc, pointerToken) IN
                 Returned(RecordElementPointer(
                     pointer, pointerToken, childPropDesc,
                     nestedPath(cc) \o pointerToken, FALSE, IndexUndefined,
                     childPropDesc.nestedProperties))
    IN
    \* beyond dash
    IF ~root /\ self.collectionElement /\ isArray(self.propDesc)
         /\ self.collectionElementIndex = Dash
    THEN Thrown("SyntaxError")
    \* array element
    ELSE IF ~root /\ ~self.collectionElement /\ isArray(self.propDesc)
    THEN LET dash == (pointerToken = <<"-">>) IN
         IF dash /\ noDash THEN Thrown("SyntaxError")
         ELSE IF ~dash /\ ~isArrayIndexToken(pointerToken) THEN Thrown("SyntaxError")
         ELSE Returned(RecordElementPointer(
                  pointer, pointerToken, self.propDesc, self.propPath, TRUE,
                  IF dash THEN Dash ELSE IndexNumber(Number(pointerToken)), cc))
    \* map element
    ELSE IF ~root /\ ~self.collectionElement /\ isMap(self.propDesc)
    THEN Returned(RecordElementPointer(
             pointer, pointerToken, self.propDesc, self.propPath, TRUE,
             IndexString(pointerToken), cc))
    \* object property: must be a nested object or the record
    ELSE IF ~root /\ self.propDesc.scalarValueType # "object"
    THEN Thrown("SyntaxError")
    ELSE IF isPolymorphObject(cc) /\ pointerToken = typePropertyName(cc)
    THEN Returned(RecordElementPointer(
             pointer, pointerToken, getPropertyDesc(cc, pointerToken),
             nestedPath(cc) \o pointerToken, FALSE, IndexUndefined, NoContainer))
    ELSE IF isPolymorphObject(cc) /\ colonInd > 0 /\ colonInd < Len(pointerToken) - 1
              /\ hasProperty(cc, subtypeName)
    THEN LET subtypePropDesc == getPropertyDesc(cc, subtypeName) IN
         \* subtypePropDesc.nestedProperties.hasProperty() on no container
         IF subtypePropDesc.nestedProperties = NoContainer THEN Thrown("TypeError")
         ELSE IF ~hasProperty(subtypePropDesc.nestedProperties, propName)
         THEN Thrown("SyntaxError")
         ELSE LET childPropDesc ==
                      getPropertyDesc(subtypePropDesc.nestedProperties, propName) IN
              Returned(RecordElementPointer(
                  pointer, pointerToken, childPropDesc,
                  nestedPath(cc) \o subtypeName \o <<".">> \o propName,
                  FALSE, IndexUndefined, childPropDesc.nestedProperties))
    ELSE regular

createChildPointer(pointer, pointerToken) ==
    _createChildPointer(pointer, pointerToken, FALSE)

\* the loop of parse() over propPointerTokens[i], i = 1 .. len - 1
RECURSIVE parseTokens(_, _, _, _)
parseTokens(lastPointer, propPointerTokens, i, noDash) ==
    IF i > Len(propPointerTokens) THEN Returned(lastPointer)
    ELSE LET r == _createChildPointer(lastPointer, unescape(propPointerTokens[i]), noDash) IN
         IF r.error # "none" THEN r
         ELSE parseTokens(r.pointer, propPointerTokens, i + 1, noDash)

parse(propPointer, noDash) ==
    IF Len(propPointer) > 0 /\ ~startsWith(propPointer, <<"/">>)
    THEN Thrown("SyntaxError")
    ELSE parseTokens(RootPointer, split(propPointer), 2, noDash)

\* a faulty isChildOf() that compares without the token separator
isChildOfWithoutSeparator(pointer, otherPtr) ==
    startsWith(toString(pointer), toString(otherPtr))

isChildOf(pointer, otherPtr) ==
    startsWith(toString(pointer), toString(otherPtr) \o <<"/">>)

(***************************************************************************)
(* Record values: undefined, null, scalars, arrays and objects (maps are   *)
(* objects).  Every value has the same four fields so that any two values  *)
(* can be compared; an absent object property reads as undefined.          *)
(***************************************************************************)
Undefined == [t |-> "undefined", s |-> 0, a |-> <<>>, o |-> <<>>]

Null == [t |-> "null", s |-> 0, a |-> <<>>, o |-> <<>>]

Scalar(n) == [t |-> "scalar", s |-> n, a |-> <<>>, o |-> <<>>]

ArrayOf(elements) == [t |-> "array", s |-> 0, a |-> elements, o |-> <<>>]

ObjectOf(props) == [t |-> "object", s |-> 0, a |-> <<>>, o |-> props]

\* new Array()
EmptyArray == ArrayOf(<<>>)

\* new Object()
EmptyObject == ObjectOf(<<>>)

\* obj[index] for a number
getIndex(obj, n) ==
    IF obj.t = "array" /\ n < Len(obj.a) THEN obj.a[n + 1] ELSE Undefined

\* obj[key] for a property name or map key
getProp(obj, key) ==
    IF obj.t = "object" /\ key \in DOMAIN obj.o THEN obj.o[key] ELSE Undefined

\* obj[index] = value for a number within the array
setIndex(obj, n, value) == [obj EXCEPT !.a[n + 1] = value]

\* obj[key] = value
setProp(obj, key, value) ==
    [obj EXCEPT !.o = [k \in (DOMAIN obj.o) \cup {key} |->
                          IF k = key THEN value ELSE obj.o[k]]]

\* delete obj[key]
deleteProp(obj, key) ==
    [obj EXCEPT !.o = [k \in (DOMAIN obj.o) \ {key} |-> obj.o[k]]]

\* obj.push(value)
push(obj, value) == [obj EXCEPT !.a = Append(obj.a, value)]

\* a faulty insertion that overwrites the element at n
spliceInsertOverwriting(obj, n, value) ==
    [obj EXCEPT !.a = SubSeq(obj.a, 1, n) \o <<value>> \o SubSeq(obj.a, n + 2, Len(obj.a))]

\* obj.splice(n, 0, value)
spliceInsert(obj, n, value) ==
    [obj EXCEPT !.a = SubSeq(obj.a, 1, n) \o <<value>> \o SubSeq(obj.a, n + 1, Len(obj.a))]

\* a faulty removal that drops the last element whatever n is
spliceRemoveLast(obj, n) ==
    [obj EXCEPT !.a = SubSeq(obj.a, 1, Len(obj.a) - 1)]

\* obj.splice(n, 1)
spliceRemove(obj, n) ==
    [obj EXCEPT !.a = SubSeq(obj.a, 1, n) \o SubSeq(obj.a, n + 2, Len(obj.a))]

\* a faulty length that counts one element more than there are
lengthAndOne(obj) == Len(obj.a) + 1

\* obj.length
length(obj) == Len(obj.a)

\* the truth value of if (obj)
truthy(obj) == obj.t \notin {"undefined", "null"}

(***************************************************************************)
(* _getImmediateValue: the value of the node p in its parent value obj.    *)
(* Yields the error thrown (or "none"), the value, the parent value as the *)
(* call leaves it, and whether the value is held by the parent (a value    *)
(* that is not is a transient container or no value at all).               *)
(***************************************************************************)
Immediate(error, val, obj, held) ==
    [error |-> error, val |-> val, obj |-> obj, held |-> held]

\* ((val === undefined) || (val === null)) && (i > 0): no element to go through
noElementToGoThrough(val, i) == val \in {Undefined, Null} /\ i > 0

\* a faulty reading that leaves a property that is not set undefined
propertyAsRead(read) == read

\* if (val === undefined) val = null: an object property that is not set
propertyOrNull(read) == IF read = Undefined THEN Null ELSE read

\* a faulty creation that stores the container whatever forSet is
newContainerStored(obj, name, container, forSet) ==
    Immediate("none", container, setProp(obj, name, container), TRUE)

\* a faulty creation that never stores the container
newContainerDropped(obj, name, container, forSet) ==
    Immediate("none", container, obj, FALSE)

\* val = new Array() or new Object(); if (forSet) obj[name] = val
newContainer(obj, name, container, forSet) ==
    Immediate("none", container,
              IF forSet THEN setProp(obj, name, container) ELSE obj,
              forSet)

_getImmediateValue(p, obj, i, forSet) ==
    IF p.root THEN Immediate("none", obj, obj, TRUE)
    ELSE IF isArray(p.propDesc) /\ p.collectionElement
    THEN IF p.collectionElementIndex # Dash
         THEN LET val == getIndex(obj, p.collectionElementIndex.n) IN
              IF noElementToGoThrough(val, i)
              THEN Immediate("DataError", Undefined, obj, FALSE)
              ELSE Immediate("none", val, obj, val # Undefined)
         ELSE Immediate("none", Undefined, obj, FALSE)
    ELSE IF isMap(p.propDesc) /\ p.collectionElement
    THEN LET val == getProp(obj, p.collectionElementIndex.s) IN
         IF noElementToGoThrough(val, i)
         THEN Immediate("DataError", Undefined, obj, FALSE)
         ELSE Immediate("none", val, obj, val # Undefined)
    ELSE LET read == getProp(obj, p.propDesc.name)
             val == propertyOrNull(read)
         IN
         IF val = Null /\ i > 0
         THEN IF i > 1 THEN Immediate("DataError", Undefined, obj, FALSE)
              ELSE IF isArray(p.propDesc)
              THEN newContainer(obj, p.propDesc.name, EmptyArray, forSet)
              ELSE IF isMap(p.propDesc)
              THEN newContainer(obj, p.propDesc.name, EmptyObject, forSet)
              ELSE Immediate("DataError", Undefined, obj, FALSE)
         ELSE Immediate("none", val, obj, read # Undefined)

\* The parent value obj once the value of node p that it holds has become
\* child: the in-place changes made below p are changes of obj.
withChild(p, obj, child) ==
    IF p.root THEN child
    ELSE IF p.collectionElement /\ isArray(p.propDesc)
    THEN setIndex(obj, p.collectionElementIndex.n, child)
    ELSE IF p.collectionElement /\ isMap(p.propDesc)
    THEN setProp(obj, p.collectionElementIndex.s, child)
    ELSE setProp(obj, p.propDesc.name, child)

\* result of an operation on a record: the error thrown (or "none"), the
\* value returned, the record as the operation leaves it, and the calls of
\* the trace callback
Result(error, value, rec, trace) ==
    [error |-> error, value |-> value, record |-> rec, trace |-> trace]

\* a faulty trace call that counts the depth from one
TraceCallFromOne(p, val, i) ==
    [prefixPtr |-> p.pointerString, value |-> val, prefixDepth |-> i + 1]

\* one call of the trace callback
TraceCall(p, val, i) == [prefixPtr |-> p.pointerString, value |-> val, prefixDepth |-> i]

\* getValue: the reduceRight over _pointerChain from index i down to 0
RECURSIVE getValueFrom(_, _, _, _)
getValueFrom(pointer, i, obj, trace) ==
    LET p == pointer[i + 1]
        g == _getImmediateValue(p, obj, i, FALSE)
    IN
    IF g.error # "none" THEN Result(g.error, Undefined, g.obj, trace)
    ELSE LET traced == Append(trace, TraceCall(p, g.val, i)) IN
         IF i = 0 THEN Result("none", g.val, g.obj, traced)
         ELSE LET r == getValueFrom(pointer, i - 1, g.val, traced) IN
              Result(r.error, r.value,
                     IF g.held THEN withChild(p, g.obj, r.record) ELSE g.obj,
                     r.trace)

getValue(pointer, rec, traceFunc) ==
    LET r == getValueFrom(pointer, Len(pointer) - 1, rec, <<>>) IN
    Result(r.error, r.value, r.record, IF traceFunc THEN r.trace ELSE <<>>)

\* the change _setValue makes at the leaf p (i === 0) to its parent value
setLeaf(p, obj, value, insert) ==
    IF p.collectionElement /\ isArray(p.propDesc)
    THEN IF p.collectionElementIndex = Dash
         THEN IF ~insert THEN [error |-> "UsageError", obj |-> obj]
              ELSE [error |-> "none", obj |-> push(obj, value)]
         ELSE IF p.collectionElementIndex.n < length(obj)
         THEN IF insert
              THEN [error |-> "none",
                    obj |-> spliceInsert(obj, p.collectionElementIndex.n, value)]
              ELSE [error |-> "none",
                    obj |-> setIndex(obj, p.collectionElementIndex.n, value)]
         ELSE [error |-> "DataError", obj |-> obj]
    ELSE IF p.collectionElement /\ isMap(p.propDesc)
    THEN [error |-> "none", obj |-> setProp(obj, p.collectionElementIndex.s, value)]
    ELSE [error |-> "none", obj |-> setProp(obj, p.propDesc.name, value)]

\* _setValue: the reduceRight over _pointerChain from index i down to 0
RECURSIVE setValueFrom(_, _, _, _, _)
setValueFrom(pointer, i, obj, value, insert) ==
    LET p == pointer[i + 1]
        g == _getImmediateValue(p, obj, i, TRUE)
    IN
    IF g.error # "none" THEN Result(g.error, Undefined, g.obj, <<>>)
    ELSE IF i = 0
    THEN LET m == setLeaf(p, g.obj, value, insert) IN
         Result(m.error, IF m.error = "none" THEN g.val ELSE Undefined, m.obj, <<>>)
    ELSE LET r == setValueFrom(pointer, i - 1, g.val, value, insert) IN
         Result(r.error, r.value,
                IF g.held THEN withChild(p, g.obj, r.record) ELSE g.obj,
                <<>>)

_setValue(pointer, rec, value, insert) ==
    IF isRoot(pointer) THEN Result("UsageError", Undefined, rec, <<>>)
    ELSE IF value = Undefined THEN Result("UsageError", Undefined, rec, <<>>)
    ELSE IF value = Null /\ this(pointer).collectionElement
              /\ this(pointer).propDesc.scalarValueType = "object"
    THEN Result("UsageError", Undefined, rec, <<>>)
    ELSE setValueFrom(pointer, Len(pointer) - 1, rec, value, insert)

addValue(pointer, rec, value) == _setValue(pointer, rec, value, TRUE)

replaceValue(pointer, rec, value) == _setValue(pointer, rec, value, FALSE)

\* the change removeValue makes at the leaf p (i === 0) to its parent value
removeLeaf(p, obj) ==
    IF p.collectionElement /\ isArray(p.propDesc)
    THEN IF p.collectionElementIndex = Dash
         THEN [error |-> "UsageError", obj |-> obj]
         ELSE IF truthy(obj) /\ p.collectionElementIndex.n < length(obj)
         THEN [error |-> "none", obj |-> spliceRemove(obj, p.collectionElementIndex.n)]
         ELSE [error |-> "DataError", obj |-> obj]
    ELSE IF truthy(obj)
    THEN IF p.collectionElement /\ isMap(p.propDesc)
         THEN [error |-> "none", obj |-> deleteProp(obj, p.collectionElementIndex.s)]
         ELSE [error |-> "none", obj |-> deleteProp(obj, p.propDesc.name)]
    ELSE [error |-> "none", obj |-> obj]

\* removeValue: the reduceRight over _pointerChain from index i down to 0
RECURSIVE removeValueFrom(_, _, _)
removeValueFrom(pointer, i, obj) ==
    LET p == pointer[i + 1]
        g == _getImmediateValue(p, obj, i, FALSE)
    IN
    IF g.error # "none" THEN Result(g.error, Undefined, g.obj, <<>>)
    ELSE IF i = 0
    THEN LET m == removeLeaf(p, g.obj) IN
         Result(m.error, IF m.error = "none" THEN g.val ELSE Undefined, m.obj, <<>>)
    ELSE LET r == removeValueFrom(pointer, i - 1, g.val) IN
         Result(r.error, r.value,
                IF g.held THEN withChild(p, g.obj, r.record) ELSE g.obj,
                <<>>)

\* a faulty removeValue() that returns nothing
removeValueReturningNothing(pointer, rec) ==
    IF isRoot(pointer) THEN Result("UsageError", Undefined, rec, <<>>)
    ELSE LET r == removeValueFrom(pointer, Len(pointer) - 1, rec) IN
         Result(r.error, Undefined, r.record, <<>>)

removeValue(pointer, rec) ==
    IF isRoot(pointer) THEN Result("UsageError", Undefined, rec, <<>>)
    ELSE removeValueFrom(pointer, Len(pointer) - 1, rec)

(***************************************************************************)
(* Inputs of the operations.                                               *)
(***************************************************************************)
\* the names of the record type's properties and subtypes
Names == {<<"t">>, <<"o">>, <<"p">>, <<"l">>, <<"m">>, <<"t", "t">>}

\* tokens handed to createChildPointer() in SpecPtr: every string of up to
\* MaxTokLen characters and every token of the form name:name
AnyTokens == Str(MaxTokLen) \cup {x \o <<":">> \o y : x, y \in Names}

\* tokens of the pointers applied to records in Spec
OpTokens == {<<"t">>, <<"o", ":", "p">>, <<"l">>, <<"m">>, <<"0">>, <<"1">>, <<"-">>}

\* the pointers createChildPointer() yields from the pointers of a set
ChildPointers(pointers) ==
    {createChildPointer(q, token).pointer :
        <<q, token>> \in {x \in pointers \X OpTokens :
                             createChildPointer(x[1], x[2]).error = "none"}}

\* the pointers createChildPointer() yields from the pointers of a set, and
\* from those, and so on
RECURSIVE WithDescendants(_)
WithDescendants(pointers) ==
    LET more == pointers \cup ChildPointers(pointers) IN
    IF more = pointers THEN pointers ELSE WithDescendants(more)

\* the pointers applied to records in Spec
Pointers == WithDescendants({RootPointer})

Scalars == {Scalar(1)}

\* values handed to addValue() and replaceValue() for a pointer: undefined,
\* null, and the values the record type allows at the pointer
ValuesFor(pointer) ==
    LET p == this(pointer) IN
    {Undefined, Null} \cup
    (IF p.root THEN {EmptyObject}
     ELSE IF ~p.collectionElement /\ isArray(p.propDesc) THEN {EmptyArray}
     ELSE IF ~p.collectionElement /\ isMap(p.propDesc) THEN {EmptyObject}
     ELSE IF p.propDesc.scalarValueType = "object" THEN {EmptyObject}
     ELSE Scalars)

\* number of properties and elements held in a value, at any depth
RECURSIVE Size(_)
RECURSIVE SizeOfProps(_, _)
SizeOfProps(props, keys) ==
    IF keys = {} THEN 0
    ELSE LET k == CHOOSE x \in keys : TRUE IN
         1 + Size(props[k]) + SizeOfProps(props, keys \ {k})

RECURSIVE SizeOfElements(_)
SizeOfElements(elements) ==
    IF elements = <<>> THEN 0
    ELSE 1 + Size(Head(elements)) + SizeOfElements(Tail(elements))

Size(v) ==
    IF v.t = "array" THEN SizeOfElements(v.a)
    ELSE IF v.t = "object" THEN SizeOfProps(v.o, DOMAIN v.o)
    ELSE 0

(***************************************************************************)
(* State: the pointer string to parse, the pointer last obtained, the      *)
(* record, the last call and its outcome.                                  *)
(***************************************************************************)
Call(op, pointer, token, noDash, value, traceFunc) ==
    [op |-> op, pointer |-> pointer, token |-> token, noDash |-> noDash,
     value |-> value, traceFunc |-> traceFunc, record |-> record]

Outcome(error, pointer, value, trace) ==
    [error |-> error, pointer |-> pointer, value |-> value, trace |-> trace]

\* no call is in progress
NoCall ==
    [op |-> "none", pointer |-> <<>>, token |-> <<>>, noDash |-> FALSE,
     value |-> Undefined, traceFunc |-> FALSE, record |-> EmptyObject]

NoOutcome == Outcome("none", <<>>, Undefined, <<>>)

Init ==
    /\ input = <<>>
    /\ ptr = RootPointer
    /\ record = EmptyObject
    /\ call = NoCall
    /\ outcome = NoOutcome

\* the pointer strings of SpecParse, any string of the characters
InitParse ==
    /\ input \in Str(MaxStrLen)
    /\ ptr = RootPointer
    /\ record = EmptyObject
    /\ call = NoCall
    /\ outcome = NoOutcome

\* ptr = parse(recordTypeDesc, input, noDash)
Parse ==
    /\ call.op = "none"
    /\ \E noDash \in BOOLEAN :
        LET r == parse(input, noDash) IN
        /\ call' = Call("parse", <<>>, <<>>, noDash, Undefined, FALSE)
        /\ outcome' = Outcome(r.error, r.pointer, Undefined, <<>>)
        /\ ptr' = IF r.error = "none" THEN r.pointer ELSE ptr
        /\ UNCHANGED <<input, record>>

\* ptr = ptr.createChildPointer(token)
CreateChildPointer ==
    /\ call.op = "none"
    /\ \E token \in AnyTokens :
        LET r == createChildPointer(ptr, token) IN
        /\ call' = Call("createChildPointer", ptr, token, FALSE, Undefined, FALSE)
        /\ outcome' = Outcome(r.error, r.pointer, Undefined, <<>>)
        /\ ptr' = IF r.error = "none" THEN r.pointer ELSE ptr
        /\ UNCHANGED <<input, record>>

\* pointer.getValue(record) and pointer.getValue(record, traceFunc)
GetValue ==
    /\ call.op = "none"
    /\ \E pointer \in Pointers, traceFunc \in BOOLEAN :
        LET r == getValue(pointer, record, traceFunc) IN
        /\ call' = Call("getValue", pointer, <<>>, FALSE, Undefined, traceFunc)
        /\ outcome' = Outcome(r.error, <<>>, r.value, r.trace)
        /\ record' = r.record
        /\ UNCHANGED <<input, ptr>>

\* pointer.addValue(record, value)
AddValue ==
    /\ call.op = "none"
    /\ \E pointer \in Pointers :
        \E value \in ValuesFor(pointer) :
            LET r == addValue(pointer, record, value) IN
            /\ Size(r.record) <= MaxSize
            /\ call' = Call("addValue", pointer, <<>>, FALSE, value, FALSE)
            /\ outcome' = Outcome(r.error, <<>>, r.value, <<>>)
            /\ record' = r.record
            /\ UNCHANGED <<input, ptr>>

\* pointer.replaceValue(record, value)
ReplaceValue ==
    /\ call.op = "none"
    /\ \E pointer \in Pointers :
        \E value \in ValuesFor(pointer) :
            LET r == replaceValue(pointer, record, value) IN
            /\ Size(r.record) <= MaxSize
            /\ call' = Call("replaceValue", pointer, <<>>, FALSE, value, FALSE)
            /\ outcome' = Outcome(r.error, <<>>, r.value, <<>>)
            /\ record' = r.record
            /\ UNCHANGED <<input, ptr>>

\* pointer.removeValue(record)
RemoveValue ==
    /\ call.op = "none"
    /\ \E pointer \in Pointers :
        LET r == removeValue(pointer, record) IN
        /\ call' = Call("removeValue", pointer, <<>>, FALSE, Undefined, FALSE)
        /\ outcome' = Outcome(r.error, <<>>, r.value, <<>>)
        /\ record' = r.record
        /\ UNCHANGED <<input, ptr>>

\* The caller has the outcome of its call (the value or pointer returned, or
\* the error thrown) and goes on with the pointer and the record as they are.
Return ==
    /\ call.op # "none"
    /\ call' = NoCall
    /\ outcome' = NoOutcome
    /\ UNCHANGED <<input, ptr, record>>

\* the operations on one record, with the pointers of the record type
Next ==
    \/ GetValue
    \/ AddValue
    \/ ReplaceValue
    \/ RemoveValue
    \/ Return

Spec == Init /\ [][Next]_vars

\* pointers built token by token from any tokens
NextPtr == CreateChildPointer \/ Return

SpecPtr == Init /\ [][NextPtr]_vars

\* any pointer string parsed
NextParse == Parse

SpecParse == InitParse /\ [][NextParse]_vars

(***************************************************************************)
(* Properties.                                                             *)
(***************************************************************************)
\* the pointer itself without its last token
Parent(pointer) == Tail(pointer)

\* the prefix of k tokens of a pointer
Prefix(pointer, k) == SubSeq(pointer, Len(pointer) - k, Len(pointer))

\* number of tokens of a pointer
Tokens(pointer) == Len(pointer) - 1

IsArrayElement(pointer) ==
    this(pointer).collectionElement /\ isArray(this(pointer).propDesc)

IsMapElement(pointer) ==
    this(pointer).collectionElement /\ isMap(this(pointer).propDesc)

IsDashLeaf(pointer) ==
    IsArrayElement(pointer) /\ this(pointer).collectionElementIndex = Dash

Mutators == {"addValue", "replaceValue", "removeValue"}

\* C1: every pointer string that parse() accepts is the string of the
\* pointer parse() returns for it.
C1_RoundTrip ==
    (call.op = "parse" /\ outcome.error = "none")
        => toString(outcome.pointer) = input

\* parse() has accepted a pointer string in which a tilde is not followed
\* by 0 or 1
C1_AcceptedBadEscape ==
    /\ call.op = "parse"
    /\ outcome.error = "none"
    /\ \E k \in 1..Len(input) :
          /\ input[k] = "~"
          /\ (k = Len(input) \/ input[k + 1] \notin {"0", "1"})

\* C2: a mutator that returns returns the value getValue() returns for the
\* same pointer on the record as it was before the call.
C2_ReturnsPreviousValue ==
    (call.op \in Mutators /\ outcome.error = "none")
        => LET before == getValue(call.pointer, call.record, FALSE) IN
           /\ before.error = "none"
           /\ outcome.value = before.value

\* a mutator has returned a previous value that is a scalar and is not the
\* value it was given
C2_ReturnedPreviousScalar ==
    /\ call.op \in Mutators
    /\ outcome.error = "none"
    /\ outcome.value \in Scalars
    /\ call.value # outcome.value
    /\ record # call.record

\* C3: replaceValue() and removeValue() on a pointer whose leaf is the dash
\* fail with UsageError, whatever the record holds.
C3_DashLeafUsageError ==
    (call.op \in {"replaceValue", "removeValue"} /\ IsDashLeaf(call.pointer))
        => outcome.error = "UsageError"

\* the fields two pointers are compared by
SamePointer(p, q) ==
    /\ toString(p) = toString(q)
    /\ this(p).propDesc = this(q).propDesc
    /\ this(p).propPath = this(q).propPath
    /\ this(p).collectionElement = this(q).collectionElement
    /\ this(p).collectionElementIndex = this(q).collectionElementIndex

\* the pointer string of the child of a pointer for a token
ChildString(pointer, token) == toString(pointer) \o <<"/">> \o escape(token)

\* C4: createChildPointer(token) on a pointer and parse() of the pointer's
\* string followed by "/" and the escaped token either both fail with
\* SyntaxError or both yield the same pointer.
C4_ChildAgreesWithParse ==
    call.op = "createChildPointer"
        => LET r == parse(ChildString(call.pointer, call.token), FALSE) IN
           \/ outcome.error = "SyntaxError" /\ r.error = "SyntaxError"
           \/ /\ outcome.error = "none"
              /\ r.error = "none"
              /\ SamePointer(outcome.pointer, r.pointer)

\* the value a record holds at a pointer; undefined if it holds none
RECURSIVE ValueAt(_, _)
ValueAt(rec, pointer) ==
    IF isRoot(pointer) THEN rec
    ELSE LET holder == ValueAt(rec, Parent(pointer))
             p == this(pointer)
         IN
         IF IsDashLeaf(pointer) THEN Undefined
         ELSE IF IsArrayElement(pointer) THEN getIndex(holder, p.collectionElementIndex.n)
         ELSE IF IsMapElement(pointer) THEN getProp(holder, p.collectionElementIndex.s)
         ELSE getProp(holder, p.propDesc.name)

\* a record with the value it holds at a pointer replaced
RECURSIVE RecordWith(_, _, _)
RecordWith(rec, pointer, value) ==
    IF isRoot(pointer) THEN value
    ELSE RecordWith(rec, Parent(pointer),
                    withChild(this(pointer), ValueAt(rec, Parent(pointer)), value))

\* the elements of the array a record holds at a pointer; none if it holds
\* no array there
ElementsAt(rec, pointer) ==
    IF ValueAt(rec, pointer).t = "array" THEN ValueAt(rec, pointer).a ELSE <<>>

\* C5: getValue() returns null for a leaf object property that is not set,
\* and returns undefined, without failing, for a leaf array index or map key
\* that is not present in its collection, also when the collection property
\* is itself not set.
C5_AbsentLeaf ==
    (call.op = "getValue" /\ ~isRoot(call.pointer))
        => LET leaf == this(call.pointer) IN
           /\ ( /\ ~leaf.collectionElement
                /\ ValueAt(call.record, Parent(call.pointer)).t = "object"
                /\ ValueAt(call.record, call.pointer) = Undefined )
              => (outcome.error = "none" /\ outcome.value = Null)
           /\ ( /\ leaf.collectionElement
                /\ ~IsDashLeaf(call.pointer)
                /\ ValueAt(call.record, Parent(Parent(call.pointer))).t = "object"
                /\ ValueAt(call.record, call.pointer) = Undefined )
              => (outcome.error = "none" /\ outcome.value = Undefined)

\* getValue() has returned undefined for an element of a collection property
\* that is not set
C5_AbsentElementOfAbsentCollection ==
    /\ call.op = "getValue"
    /\ call.pointer \in Pointers
    /\ this(call.pointer).collectionElement
    /\ ~IsDashLeaf(call.pointer)
    /\ Tokens(call.pointer) > 2
    /\ ValueAt(call.record, Parent(Parent(call.pointer))).t = "object"
    /\ ValueAt(call.record, Parent(call.pointer)) = Undefined
    /\ outcome.value = Undefined

\* C6: addValue() on an array element leaf inserts: the array grows by one
\* element; for an index the value is at the index, the elements before it
\* stay and those from it on move one position right; for the dash the value
\* is the last element and the elements before it stay.
C6_AddInsertsIntoArray ==
    (call.op = "addValue" /\ outcome.error = "none" /\ IsArrayElement(call.pointer))
        => LET before == ElementsAt(call.record, Parent(call.pointer))
               after == ElementsAt(record, Parent(call.pointer))
               n == this(call.pointer).collectionElementIndex.n
           IN
           /\ ValueAt(record, Parent(call.pointer)).t = "array"
           /\ Len(after) = Len(before) + 1
           /\ IF IsDashLeaf(call.pointer)
              THEN after = Append(before, call.value)
              ELSE /\ n < Len(before)
                   /\ after = SubSeq(before, 1, n) \o <<call.value>>
                                 \o SubSeq(before, n + 1, Len(before))

\* addValue() has inserted a value between two elements that differ
C6_InsertedBetween ==
    /\ call.op = "addValue"
    /\ outcome.error = "none"
    /\ IsArrayElement(call.pointer)
    /\ this(call.pointer).collectionElementIndex = IndexNumber(1)
    /\ LET before == ElementsAt(call.record, Parent(call.pointer)) IN
       /\ Len(before) = 2
       /\ before[1] # before[2]
       /\ call.value # before[2]

\* C7: removeValue() on an array index within the array removes the element:
\* the elements before it stay, those after it move one position left, and
\* nothing else in the record changes.
C7_RemoveDeletesFromArray ==
    ( /\ call.op = "removeValue"
      /\ IsArrayElement(call.pointer)
      /\ ~IsDashLeaf(call.pointer)
      /\ this(call.pointer).collectionElementIndex.n
            < Len(ElementsAt(call.record, Parent(call.pointer))) )
        => LET before == ElementsAt(call.record, Parent(call.pointer))
               n == this(call.pointer).collectionElementIndex.n
               after == SubSeq(before, 1, n) \o SubSeq(before, n + 2, Len(before))
           IN
           /\ outcome.error = "none"
           /\ Len(after) = Len(before) - 1
           /\ record = RecordWith(call.record, Parent(call.pointer), ArrayOf(after))

\* removeValue() has removed the middle one of three elements, the first and
\* the last of which differ, from a record that holds more than the array
C7_RemovedMiddle ==
    /\ call.op = "removeValue"
    /\ outcome.error = "none"
    /\ IsArrayElement(call.pointer)
    /\ this(call.pointer).collectionElementIndex = IndexNumber(1)
    /\ LET before == ElementsAt(call.record, Parent(call.pointer)) IN
       /\ Len(before) = 3
       /\ before[1] # before[3]

\* the number of colons in a token
Colons(token) == Cardinality({k \in 1..Len(token) : token[k] = ":"})

\* C8: in the polymorphic record type, parse() resolves the type property
\* token to the type property, a node that is no collection element and has
\* no children container; it resolves a token S:p, the colon neither first
\* nor last, to property p of subtype S if S is a declared subtype and p is
\* declared on it, and fails with a syntax error on every other token X:y.
C8_PolymorphicToken ==
    (call.op = "parse" /\ Len(input) > 0 /\ input[1] = "/" /\ Len(split(input)) = 2)
        => LET token == unescape(split(input)[2])
               colonInd == indexOf(token, ":")
               X == SubSeq(token, 1, colonInd)
               y == SubSeq(token, colonInd + 2, Len(token))
           IN
           /\ token = typePropertyName(recordTypeDesc)
                => /\ outcome.error = "none"
                   /\ this(outcome.pointer).propDesc
                          = getPropertyDesc(recordTypeDesc, token)
                   /\ ~this(outcome.pointer).collectionElement
                   /\ this(outcome.pointer).childrenContainer = NoContainer
           /\ (Colons(token) = 1 /\ colonInd > 0 /\ colonInd < Len(token) - 1)
                => IF /\ X \in Subtypes
                      /\ hasProperty(getPropertyDesc(recordTypeDesc, X).nestedProperties, y)
                   THEN /\ outcome.error = "none"
                        /\ this(outcome.pointer).propDesc
                              = getPropertyDesc(
                                    getPropertyDesc(recordTypeDesc, X).nestedProperties, y)
                   ELSE outcome.error = "SyntaxError"

C10_ChildOfShorterPrefixes ==
    \A i, j \in 0..Tokens(ptr) :
        isChildOf(Prefix(ptr, i), Prefix(ptr, j)) <=> j < i

\* a pointer of two tokens has been built whose last token is an empty map
\* key or a map key with an escaped character
C10_BuiltThroughOddKey ==
    /\ Tokens(ptr) = 2
    /\ IsMapElement(ptr)
    /\ \/ this(ptr).collectionElementIndex.s = <<>>
       \/ \E k \in 1..Len(this(ptr).collectionElementIndex.s) :
            this(ptr).collectionElementIndex.s[k] \in {"~", "/"}

\* the value of the call is one that addValue() and replaceValue() take
AcceptedValue ==
    /\ call.value # Undefined
    /\ ~( /\ call.value = Null
          /\ this(call.pointer).collectionElement
          /\ this(call.pointer).propDesc.scalarValueType = "object" )

\* the prefix of k tokens of the pointer of the call ends with an index that
\* is out of the bounds of the array the record held before the call
OutOfBoundsAt(k) ==
    /\ IsArrayElement(Prefix(call.pointer, k))
    /\ ~IsDashLeaf(Prefix(call.pointer, k))
    /\ ValueAt(call.record, Prefix(call.pointer, k - 1)).t = "array"
    /\ this(Prefix(call.pointer, k)).collectionElementIndex.n
          >= Len(ValueAt(call.record, Prefix(call.pointer, k - 1)).a)

\* C11 as stated: an array index out of the bounds of the array in the record
\* makes getValue(), addValue(), replaceValue() and removeValue() fail with
\* a data error.
C11_OutOfBoundsFails ==
    ( /\ call.op \in Mutators \cup {"getValue"}
      /\ call.op \in {"addValue", "replaceValue"} => AcceptedValue )
        => \A k \in 1..Tokens(call.pointer) :
              OutOfBoundsAt(k) => outcome.error = "DataError"

\* C11: an array index out of the bounds of the array in the record makes
\* addValue(), replaceValue() and removeValue() fail with a data error;
\* getValue() fails with a data error when the index is not the last token of
\* the pointer, and returns undefined when it is.
C11_OutOfBoundsFailsButLeafRead ==
    ( /\ call.op \in Mutators \cup {"getValue"}
      /\ call.op \in {"addValue", "replaceValue"} => AcceptedValue )
        => \A k \in 1..Tokens(call.pointer) :
              OutOfBoundsAt(k)
                 => IF call.op = "getValue" /\ k = Tokens(call.pointer)
                    THEN outcome.error = "none" /\ outcome.value = Undefined
                    ELSE outcome.error = "DataError"

\* addValue() has failed on the index one past the last element of an array
\* that is not empty
C11_AddedPastTheEnd ==
    /\ call.op = "addValue"
    /\ AcceptedValue
    /\ OutOfBoundsAt(Tokens(call.pointer))
    /\ Len(ValueAt(call.record, Parent(call.pointer)).a) = 1
    /\ outcome.error = "DataError"

\* C12: getValue() leaves the record as it was, with and without a trace
\* callback, whether it returns or fails; an empty array or map it goes
\* through in place of a collection property that is not set is not stored.
C12_GetValueKeepsRecord ==
    call.op = "getValue" => record = call.record

\* getValue() with a trace callback has gone through an empty collection in
\* place of a collection property that is not set
C12_WentThroughTransient ==
    /\ call.op = "getValue"
    /\ call.traceFunc
    /\ Tokens(call.pointer) >= 2
    /\ Len(outcome.trace) = Tokens(call.pointer) + 1
    /\ ValueAt(call.record, Parent(call.pointer)) \in {Undefined, Null}
    /\ outcome.trace[Tokens(call.pointer)].value \in {EmptyArray, EmptyObject}

\* the prefix of k tokens of the pointer of the call is an array or map
\* property that is not set in the object the record held for it before the
\* call
UnsetCollectionAt(k) ==
    /\ ~this(Prefix(call.pointer, k)).collectionElement
    /\ \/ isArray(this(Prefix(call.pointer, k)).propDesc)
       \/ isMap(this(Prefix(call.pointer, k)).propDesc)
    /\ ValueAt(call.record, Prefix(call.pointer, k - 1)).t = "object"
    /\ ValueAt(call.record, Prefix(call.pointer, k)) \in {Undefined, Null}

\* the record holds an array or a map, as the property is declared, at the
\* prefix of k tokens of the pointer of the call
CollectionStoredAt(k) ==
    ValueAt(record, Prefix(call.pointer, k)).t
        = IF isArray(this(Prefix(call.pointer, k)).propDesc) THEN "array" ELSE "object"

\* C13 as stated: addValue() and replaceValue() store an empty array or map
\* for every array or map property above the leaf, at any depth, that is not
\* set.
C13_ContainerStoredAtAnyDepth ==
    (call.op \in {"addValue", "replaceValue"} /\ AcceptedValue)
        => \A k \in 1..(Tokens(call.pointer) - 1) :
              UnsetCollectionAt(k) => CollectionStoredAt(k)

\* C13: addValue() and replaceValue() store an empty array or map for an
\* array or map property that is not set when the leaf is an element of it;
\* when the property is further above the leaf they fail with a data error
\* and store nothing.
C13_ContainerStoredAboveLeaf ==
    (call.op \in {"addValue", "replaceValue"} /\ AcceptedValue)
        => \A k \in 1..(Tokens(call.pointer) - 1) :
              UnsetCollectionAt(k)
                 => IF k = Tokens(call.pointer) - 1
                    THEN CollectionStoredAt(k)
                    ELSE outcome.error = "DataError" /\ record = call.record

\* addValue() has put a value into a map that was not set
C13_StoredNewMap ==
    /\ call.op = "addValue"
    /\ outcome.error = "none"
    /\ IsMapElement(call.pointer)
    /\ UnsetCollectionAt(Tokens(call.pointer) - 1)
    /\ ValueAt(record, call.pointer) = call.value
    /\ call.value \in Scalars

\* C14: when addValue(), replaceValue() or removeValue() fails, the record is
\* as it was before the call.
C14_FailureKeepsRecord ==
    (call.op \in Mutators /\ outcome.error # "none") => record = call.record

====
